---------------------------- MODULE Spec2Model ----------------------------
(***************************************************************************)
(* A model of src/matrix_functions.py (IFRS-9-Modelling): base_matrices,   *)
(* absorbing_state, extract_pds and cure_rate.                             *)
(*                                                                         *)
(* Numbers.  pandas and numpy compute in binary floating point, round to   *)
(* nearest, ties to even.  A number is modelled as <<m, e>>, standing for  *)
(* m * 2^e, with m odd (or <<0, 0>> for zero) and |m| < 2^MantissaBits.    *)
(* Every arithmetic result is rounded to MantissaBits significant bits,    *)
(* as binary64 rounds to 53.  NaN is numpy's not-a-number.                 *)
(***************************************************************************)
EXTENDS Integers, Sequences, FiniteSets

\* ------------------------------------------------------------ bounds ----
\* Significant bits of the floating-point format (53 in binary64).
MantissaBits == 7
\* Number of horizons extract_pds and cure_rate compute (300 in the source).
Horizon == 10
\* Largest number of records in an input table of base_matrices.
MaxRecords == 3
\* Largest number of unit observations behind one segment's 3-stage matrix
\* given to absorbing_state or extract_pds.
MaxObservations == 3
\* The same for a 4-stage matrix.
MaxObservations4 == 2
\* Largest number of absorbing_state calls on one collection.
MaxCalls == 2
\* Largest out_balance sum of one category in the table given to cure_rate.
MaxSum == 2

\* ------------------------------------------------------- universes ------
\* Loan segments (values of loan_type), in index order.
SegmentList == <<"A", "B">>
Segments == {SegmentList[i] : i \in 1 .. Len(SegmentList)}
\* Stage labels in pandas' sorted label order: position i is iloc[i].
StageLabels(n) ==
    IF n = 3 THEN <<"stage_1", "stage_2", "stage_3">>
    ELSE <<"stage_1", "stage_2a", "stage_2b", "stage_3">>
\* Values of out_balance.
Balances == {0, 1, 2}

\* ------------------------------------------------- floating point -------
Zero == <<0, 0>>
One == <<1, 0>>
NaN == <<0, 1>>

Abs(i) == IF i < 0 THEN 0 - i ELSE i

RECURSIVE BitLen(_)
BitLen(a) == IF a = 0 THEN 0 ELSE 1 + BitLen(a \div 2)

\* The unique representation of m * 2^e: an odd mantissa, or Zero.
RECURSIVE Canon(_, _)
Canon(m, e) ==
    IF m = 0 THEN Zero
    ELSE IF m % 2 = 0 THEN Canon(m \div 2, e + 1)
    ELSE <<m, e>>

\* m * 2^e rounded to MantissaBits significant bits, ties to even.
Round(m, e) ==
    LET a == Abs(m)
        sh == BitLen(a) - MantissaBits
    IN  IF sh <= 0 THEN Canon(m, e)
        ELSE LET q == a \div (2 ^ sh)
                 r == a % (2 ^ sh)
                 half == 2 ^ (sh - 1)
                 up == r > half \/ (r = half /\ q % 2 = 1)
                 q2 == IF up THEN q + 1 ELSE q
             IN  Canon(IF m < 0 THEN 0 - q2 ELSE q2, e + sh)

\* floor(log2 |x|) for x # Zero.
TopBit(x) == BitLen(Abs(x[1])) + x[2] - 1

FMul(x, y) ==
    IF x = NaN \/ y = NaN THEN NaN
    ELSE Round(x[1] * y[1], x[2] + y[2])

FAdd(x, y) ==
    IF x = NaN \/ y = NaN THEN NaN
    ELSE IF x = Zero THEN y
    ELSE IF y = Zero THEN x
    ELSE IF TopBit(y) < TopBit(x) - MantissaBits - 1 THEN x
    ELSE IF TopBit(x) < TopBit(y) - MantissaBits - 1 THEN y
    ELSE LET emin == IF x[2] < y[2] THEN x[2] ELSE y[2]
         IN  Round(x[1] * 2 ^ (x[2] - emin) + y[1] * 2 ^ (y[2] - emin), emin)

FNeg(x) == IF x = NaN THEN NaN ELSE <<0 - x[1], x[2]>>

FSub(x, y) == FAdd(x, FNeg(y))

\* a / b for integers a >= 0, b >= 0, correctly rounded; 0/0 is NaN.
FDivInt(a, b) ==
    IF b = 0 THEN NaN
    ELSE IF a = 0 THEN Zero
    ELSE LET k == MantissaBits + 1 + BitLen(b)
             n == (a * 2 ^ k) \div b
             sticky == IF (a * 2 ^ k) % b = 0 THEN 0 ELSE 1
         IN  Round(2 * n + sticky, 0 - k - 1)

\* x <= y; every comparison with NaN is false.
FLeq(x, y) ==
    /\ x # NaN /\ y # NaN
    /\ LET d == FSub(y, x) IN d[1] >= 0


\* ------------------------------------------------------- matrices -------
\* A matrix is the tuple of its rows and a row the tuple of its entries, so
\* stage i (iloc[i], 0-based as in the source) is position i + 1.
Stages(n) == 0 .. (n - 1)
At(m, i, j) == m[i + 1][j + 1]

\* The tuple <<F(0), ..., F(n - 1)>>, for n from 2 to 4.
Build(n, F(_)) ==
    IF n = 2 THEN <<F(0), F(1)>>
    ELSE IF n = 3 THEN <<F(0), F(1), F(2)>>
    ELSE <<F(0), F(1), F(2), F(3)>>

\* The tuple of F(segment) over the segments, and a segment's place in it.
BuildSegments(F(_)) == <<F(SegmentList[1]), F(SegmentList[2])>>
SegmentIndex(seg) == CHOOSE i \in 1 .. Len(SegmentList) : SegmentList[i] = seg

\* One entry of numpy.matmul(a, b): the dot product, accumulated in order.
RECURSIVE Dot(_, _, _, _, _)
Dot(a, b, i, j, k) ==
    IF k = 0 THEN FMul(At(a, i, 0), At(b, 0, j))
    ELSE FAdd(Dot(a, b, i, j, k - 1), FMul(At(a, i, k), At(b, k, j)))

matmul(a, b, n) ==
    Build(n, LAMBDA i : Build(n, LAMBDA j : Dot(a, b, i, j, n - 1)))

\* The z of numpy.linalg.matrix_power's loop: a, a^2, a^4, ... (z = z @ z).
RECURSIVE Squares(_, _, _)
Squares(a, k, n) ==
    IF k = 1 THEN <<a>>
    ELSE LET prev == Squares(a, k - 1, n)
         IN  Append(prev, matmul(prev[k - 1], prev[k - 1], n))

\* matrix_power's binary decomposition: result takes the z of every set bit
\* of the exponent, lowest first.  sq[k] is the k-th z.
RECURSIVE PowerLoop(_, _, _, _, _)
PowerLoop(sq, k, result, e, n) ==
    IF e = 0 THEN result
    ELSE LET r2 == IF e % 2 = 1
                   THEN (IF result = <<>> THEN sq[k] ELSE matmul(result, sq[k], n))
                   ELSE result
         IN  PowerLoop(sq, k + 1, r2, e \div 2, n)

\* numpy.linalg.matrix_power(a, e) for e >= 1, given the squares of a.
matrix_power(sq, e, n) ==
    IF e = 1 THEN sq[1]
    ELSE IF e = 2 THEN matmul(sq[1], sq[1], n)
    ELSE IF e = 3 THEN matmul(matmul(sq[1], sq[1], n), sq[1], n)
    ELSE PowerLoop(sq, 1, <<>>, e, n)

\* [matrix_power(a, i) for i in range(1, Horizon + 1)]
RECURSIVE PowersTo(_, _, _)
PowersTo(sq, t, n) ==
    IF t = 0 THEN <<>>
    ELSE Append(PowersTo(sq, t - 1, n), matrix_power(sq, t, n))

Powers(a, n) == PowersTo(Squares(a, BitLen(Horizon), n), Horizon, n)

\* ---------------------------------------------------- base_matrices -----
\* The records of a table: loan_type, current_stage, next_stage, out_balance.
TableStages == {StageLabels(3)[i] : i \in 1 .. 3}
Records ==
    [loan_type : Segments, current_stage : TableStages,
     next_stage : TableStages \cup {"exit"}, out_balance : Balances]

RECURSIVE SumBalances(_)
SumBalances(rs) ==
    IF rs = {} THEN 0
    ELSE LET r == CHOOSE x \in rs : TRUE
         IN  r.out_balance + SumBalances(rs \ {r})

\* A variant of DropExit that keeps the exit records; C1 must tell the two
\* apart.
KeepExit(table) == table

\* df[df['next_stage'] != 'exit']
DropExit(table) == {r \in table : r.next_stage # "exit"}

\* The records aggregated into one cell of the crosstab.
CellRecords(table, seg, cur, nxt) ==
    {r \in table : r.loan_type = seg /\ r.current_stage = cur /\ r.next_stage = nxt}

\* normalize='index': each cell's sum over its row's sum (empty cells are
\* skipped by the sums), then fillna(0).
NormalizeIndex(table, seg, cur, nxt) ==
    LET cell == CellRecords(table, seg, cur, nxt)
        row == {r \in table : r.loan_type = seg /\ r.current_stage = cur}
        q == IF cell = {} THEN NaN
             ELSE FDivInt(SumBalances(cell), SumBalances(row))
    IN  IF q = NaN THEN Zero ELSE q

\* pd.crosstab(index=[loan_type, current_stage], columns=[next_stage],
\* values=out_balance, aggfunc="sum", dropna=False, normalize='index'):
\* the index is the product of the observed segments and current stages,
\* the columns are the observed next stages.
base_matrices(table) ==
    LET kept == DropExit(table)
        segs == {r.loan_type : r \in kept}
        curs == {r.current_stage : r \in kept}
        nxts == {r.next_stage : r \in kept}
    IN  [index |-> segs \X curs,
         columns |-> nxts,
         values |-> [rc \in (segs \X curs) \X nxts |->
                       NormalizeIndex(kept, rc[1][1], rc[1][2], rc[2])]]

NoResult == [index |-> {}, columns |-> {}, values |-> <<>>]

\* The tables of at most k pairwise distinct records.
RECURSIVE TablesUpTo(_)
TablesUpTo(k) ==
    IF k = 0 THEN {{}}
    ELSE LET smaller == TablesUpTo(k - 1)
         IN  smaller \cup {t \cup {r} : t \in smaller, r \in Records}

\* --------------------------------------------------- absorbing_state ----
\* if matrix_size not in {3, 4}: raise ValueError(...)
\* A variant of ValidSize that lets 5 through; C4 must tell the two apart.
ValidSizeOrFive(matrix_size) == matrix_size \in {3, 4, 5}

\* if matrix_size not in [3, 4]: raise ValueError
ValidSize(matrix_size) == matrix_size \in {3, 4}

\* (0, 0, 1) and (0, 0, 0, 1)
UnitRow(n) == Build(n, LAMBDA j : IF j = n - 1 THEN One ELSE Zero)

\* A variant of SetLastRow that adds the unit vector to the last row instead
\* of assigning it; C3 must tell the two apart.
AddToLastRow(m, n) ==
    [m EXCEPT ![n] = Build(n, LAMBDA j : FAdd(@[j + 1], UnitRow(n)[j + 1]))]

\* .iloc[matrix_size - 1] = (0, ..., 0, 1) on one segment's block.
SetLastRow(m, n) == [m EXCEPT ![n] = UnitRow(n)]

\* matrices_df.loc[loan_segment].iloc[matrix_size - 1] = (0, ..., 0, 1) is a
\* chained assignment: .loc[loan_segment] makes a new object, and the row is
\* assigned in that object.  pandas writes it through to matrices_df only
\* when the new object is a view (one dtype, a sorted index, no copy-on-write);
\* under copy-on-write (the default from pandas 3) it never does.  views is
\* which of the two the running build does.  The function returns matrices_df
\* itself, so value is both the caller's collection and the return value.
\* A matrix_size that is not the size of the blocks fails in the assignment:
\* three values for four columns (ValueError), or row 3 of three (IndexError).
absorbing_state(frame, matrix_size, n, views) ==
    IF ~ValidSize(matrix_size) THEN [error |-> "ValueError", value |-> frame]
    ELSE IF matrix_size < n THEN [error |-> "ValueError", value |-> frame]
    ELSE IF matrix_size > n THEN [error |-> "IndexError", value |-> frame]
    ELSE [error |-> "none",
          value |-> IF views
                    THEN [loan_segment \in DOMAIN frame |->
                            SetLastRow(frame[loan_segment], matrix_size)]
                    ELSE frame]

\* ------------------------------------------------------- extract_pds ----
\* [matrix_power(m, i)[stage, matrix_size - 1] for i in range(1, 301)]
cumulative_pds(powers, stage, matrix_size) ==
    [i \in 1 .. Len(powers) |-> At(powers[i], stage, matrix_size - 1)]

\* A variant of marginal_pds that subtracts the first value instead of the
\* previous one; C6 must tell the two apart.
DifferenceFromFirst(c) ==
    [i \in 1 .. Len(c) |-> IF i = 1 THEN c[1] ELSE FSub(c[i], c[1])]

\* [c[i] if i == 0 else c[i] - c[i-1] for i in range(len(c))]
marginal_pds(c) ==
    [i \in 1 .. Len(c) |-> IF i = 1 THEN c[1] ELSE FSub(c[i], c[i - 1])]

\* stage_dicts[stage]['cumulative_dict'][loan_segment], and the marginal one.
stage_dicts(frame, matrix_size, n) ==
    LET curves == BuildSegments(LAMBDA loan_segment :
                     IF loan_segment \notin DOMAIN frame THEN <<>>
                     ELSE LET powers == Powers(frame[loan_segment], n)
                          IN  Build(matrix_size - 1, LAMBDA stage :
                                 cumulative_pds(powers, stage, matrix_size)))
        cumulative(seg, stage) == curves[SegmentIndex(seg)][stage + 1]
    IN  [stage \in Stages(matrix_size - 1) |->
           [cumulative_dict |-> [seg \in DOMAIN frame |-> cumulative(seg, stage)],
            marginal_dict |-> [seg \in DOMAIN frame |->
                                 marginal_pds(cumulative(seg, stage))]]]

\* A variant of extract_pds that returns the marginal tables first; C7 must
\* tell the two apart.
MarginalTablesFirst(frame, matrix_size, n) ==
    IF ~ValidSize(matrix_size) THEN [error |-> "ValueError", value |-> <<>>]
    ELSE IF matrix_size > n THEN [error |-> "IndexError", value |-> <<>>]
    ELSE LET d == stage_dicts(frame, matrix_size, n)
         IN  [error |-> "none",
              value |-> [k \in 1 .. 2 * (matrix_size - 1) |->
                           IF k <= matrix_size - 1
                           THEN d[k - 1].marginal_dict
                           ELSE d[k - matrix_size].cumulative_dict]]

\* tuple(df_cumulative.values()) + tuple(df_marginal.values()): the
\* cumulative tables in stage order, then the marginal ones.  Column
\* matrix_size - 1 of a smaller matrix is an IndexError.
extract_pds(frame, matrix_size, n) ==
    IF ~ValidSize(matrix_size) THEN [error |-> "ValueError", value |-> <<>>]
    ELSE IF matrix_size > n THEN [error |-> "IndexError", value |-> <<>>]
    ELSE LET d == stage_dicts(frame, matrix_size, n)
         IN  [error |-> "none",
              value |-> [k \in 1 .. 2 * (matrix_size - 1) |->
                           IF k <= matrix_size - 1
                           THEN d[k - 1].cumulative_dict
                           ELSE d[k - matrix_size].marginal_dict]]

\* -------------------------------------------------------- cure_rate -----
\* The table given to cure_rate, as far as cure_rate reads it: which of the
\* columns 'recoveries' and 'cures' it has, and the out_balance sum of every
\* category of that column, Absent for a category without a record.
Categories == {"cured", "recovered", "stage_3"}
Absent == 0 - 1
CureTables ==
    [columns : SUBSET {"recoveries", "cures"},
     sums : [Categories -> {Absent} \cup (0 .. MaxSum)]]

\* df.groupby(column)['out_balance'].sum().loc[category] is a KeyError when
\* the column or the category is missing.
HasGroup(table, column, category) ==
    column \in table.columns /\ table.sums[category] # Absent

\* np.identity(3) with row 2 set to the three sums, every row divided by
\* its sum.
cr_rr(cured, recovered, stage_3) ==
    LET total == cured + recovered + stage_3
    IN  <<<<One, Zero, Zero>>,
          <<Zero, One, Zero>>,
          <<FDivInt(cured, total), FDivInt(recovered, total),
            FDivInt(stage_3, total)>>>>

\* [matrix_power(cr_rr, i)[2, column] for i in range(1, Horizon + 1)]
cumulative_rate(powers, column) ==
    [i \in 1 .. Len(powers) |-> At(powers[i], 2, column)]

NoRates == [error |-> "none", value |-> <<>>]

\* cure_rate(df).  Without a 'recoveries' column the function reads the
\* 'cures' groups and then groups by 'recoveries' all the same, which is a
\* KeyError before the unassigned name cr_rr is reached.
cure_rate(table) ==
    IF "recoveries" \in table.columns
    THEN IF \E c \in Categories : ~HasGroup(table, "recoveries", c)
         THEN [error |-> "KeyError", value |-> <<>>]
         ELSE LET powers == Powers(cr_rr(table.sums["cured"],
                                         table.sums["recovered"],
                                         table.sums["stage_3"]), 3)
              IN  [error |-> "none",
                   value |-> [cure_rates |->
                                marginal_pds(cumulative_rate(powers, 0)),
                              recovery_rates |->
                                marginal_pds(cumulative_rate(powers, 1))]]
    ELSE IF ~HasGroup(table, "cures", "cured")
         THEN [error |-> "KeyError", value |-> <<>>]
         ELSE [error |-> "KeyError", value |-> <<>>]

\* ------------------------------------------------ inputs of the calls ---
RECURSIVE SumTo(_, _)
SumTo(b, k) == IF k = 0 THEN 0 ELSE b[k] + SumTo(b, k - 1)

\* A row of balances divided by its sum, as base_matrices leaves it.
NormalizeRow(b, n) ==
    LET t == SumTo(b, n)
    IN  Build(n, LAMBDA j : IF t = 0 THEN Zero ELSE FDivInt(b[j + 1], t))

\* The n x n tables of counts of at most k unit observations in the first
\* rows many rows.
RECURSIVE Counts(_, _, _)
Counts(n, rows, k) ==
    IF k = 0 THEN {Build(n, LAMBDA i : Build(n, LAMBDA j : 0))}
    ELSE LET fewer == Counts(n, rows, k - 1)
         IN  fewer \cup {[c EXCEPT ![i][j] = @ + 1] :
                           c \in fewer, i \in 1 .. rows, j \in 1 .. n}

\* The matrix of a table of counts; with absorbing, its last row is the
\* unit row already.
MatrixOf(c, n, absorbing) ==
    Build(n, LAMBDA i : IF absorbing /\ i = n - 1 THEN UnitRow(n)
                        ELSE NormalizeRow(c[i + 1], n))

MatrixPool(n, absorbing, k) ==
    {MatrixOf(c, n, absorbing) :
        c \in Counts(n, IF absorbing THEN n - 1 ELSE n, k)}

\* The matrix of a segment whose every balance was observed once, moving to
\* the next stage, the last stage staying where it is.
Downgrade(n) ==
    MatrixOf(Build(n, LAMBDA i : Build(n, LAMBDA j :
                 IF j = (IF i = n - 1 THEN i ELSE i + 1) THEN 1 ELSE 0)),
             n, FALSE)

\* The collections given to the calls: one segment's matrix is drawn from
\* the pool of at most k observations, the other segment, when there is
\* one, holds the downgrade matrix.
Collections(n, absorbing, k) ==
    {[seg \in segs |-> IF seg = focus THEN m ELSE Downgrade(n)] :
        segs \in (SUBSET Segments) \ {{}}, focus \in Segments,
        m \in MatrixPool(n, absorbing, k)}

\* -------------------------------------------------------------- state ---
VARIABLES
    df,           \* base_matrices: the table of records given to it
    matrices,     \* base_matrices: the crosstab it returned
    done,         \* base_matrices has returned
    matrices_df,  \* the caller's collection: loan segment -> matrix
    size,         \* the size of the collection's matrices
    views,        \* the build writes a chained assignment through
    given,        \* matrices_df as it was before the latest call
    results,      \* what each absorbing_state call returned, in call order
    pds,          \* the tuple extract_pds returned, <<>> before
    error,        \* the exception the latest call raised, or "none"
    call,         \* the latest call: function and matrix_size
    cures,        \* cure_rate: the table given to it
    rates         \* cure_rate: what it returned or raised, NoRates before

vars == <<df, matrices, done, matrices_df, size, views, given, results, pds,
          error, call, cures, rates>>

bmVars == <<df, matrices, done>>
pdVars == <<matrices_df, size, views, given, results, pds, error, call>>
cureVars == <<cures, rates>>

\* The values matrix_size is called with.
MatrixSizes == 2 .. 5

NoCall == [function |-> "none", matrix_size |-> 0]

IdleBM == df = {} /\ matrices = NoResult /\ done = TRUE

IdlePD ==
    /\ matrices_df = <<>> /\ size = 3 /\ views = FALSE /\ given = <<>>
    /\ results = <<>> /\ pds = <<>> /\ error = "none" /\ call = NoCall

NoTable == [columns |-> {}, sums |-> [c \in Categories |-> Absent]]

IdleCure == cures = NoTable /\ rates = NoRates

\* --------------------------------------------- base_matrices: the run ---
InitBM ==
    /\ \E t \in TablesUpTo(MaxRecords - 1) : \E r \in Records : df = t \cup {r}
    /\ matrices = NoResult
    /\ done = FALSE
    /\ IdlePD
    /\ IdleCure

BaseMatrices ==
    /\ ~done
    /\ matrices' = base_matrices(df)
    /\ done' = TRUE
    /\ UNCHANGED <<df, pdVars, cureVars>>

NextBM == BaseMatrices
SpecBM == InitBM /\ [][NextBM]_vars

\* ------------------------------- absorbing_state, extract_pds: the runs ---
StartPD(absorbing, single, builds) ==
    /\ size \in {3, 4}
    /\ matrices_df \in Collections(size, absorbing,
                          IF single THEN 1
                          ELSE IF size = 3 THEN MaxObservations
                          ELSE MaxObservations4)
    /\ views \in builds
    /\ given = matrices_df
    /\ results = <<>> /\ pds = <<>> /\ error = "none" /\ call = NoCall
    /\ IdleBM
    /\ IdleCure

\* A call of absorbing_state(matrices_df, matrix_size).  An exception ends
\* the run.
AbsorbingState ==
    /\ error = "none" /\ pds = <<>> /\ Len(results) < MaxCalls
    /\ \E matrix_size \in MatrixSizes :
         LET r == absorbing_state(matrices_df, matrix_size, size, views)
         IN  /\ call' = [function |-> "absorbing_state", matrix_size |-> matrix_size]
             /\ given' = matrices_df
             /\ error' = r.error
             /\ matrices_df' = r.value
             /\ results' = IF r.error = "none" THEN Append(results, r.value)
                           ELSE results
    /\ UNCHANGED <<size, views, pds, bmVars, cureVars>>

\* A call of extract_pds(matrices_df, matrix_size); the run ends with it.
ExtractPds ==
    /\ error = "none" /\ pds = <<>>
    /\ \E matrix_size \in MatrixSizes :
         LET r == extract_pds(matrices_df, matrix_size, size)
         IN  /\ call' = [function |-> "extract_pds", matrix_size |-> matrix_size]
             /\ given' = matrices_df
             /\ error' = r.error
             /\ pds' = r.value
    /\ UNCHANGED <<matrices_df, size, views, results, bmVars, cureVars>>

\* Calls of both functions, in any order and with any matrix_size, on
\* collections of single observations.
Init == StartPD(FALSE, TRUE, BOOLEAN)
Next == AbsorbingState \/ ExtractPds
Spec == Init /\ [][Next]_vars

\* absorbing_state on collections of any matrices.
InitAbs == StartPD(FALSE, FALSE, BOOLEAN)
NextAbs == AbsorbingState
SpecAbs == InitAbs /\ [][NextAbs]_vars

\* extract_pds on collections of absorbing matrices; it makes no assignment,
\* so one build stands for both.
InitPD == StartPD(TRUE, FALSE, {FALSE})
NextPD == ExtractPds
SpecPD == InitPD /\ [][NextPD]_vars

\* ------------------------------------------------- cure_rate: the run ---
InitCure ==
    /\ cures \in CureTables
    /\ rates = NoRates
    /\ IdleBM
    /\ IdlePD

CureRate ==
    /\ rates = NoRates
    /\ rates' = cure_rate(cures)
    /\ UNCHANGED <<cures, bmVars, pdVars>>

NextCure == CureRate
SpecCure == InitCure /\ [][NextCure]_vars

\* ================================================== the properties =====
\* ---------------------------------------------------------------- C1 ---
\* A row of the returned crosstab in column order, an absent column
\* counting as nothing.
RowOf(row) ==
    [j \in 1 .. 3 |->
       IF StageLabels(3)[j] \in matrices.columns
       THEN matrices.values[<<row, StageLabels(3)[j]>>]
       ELSE Zero]

\* The row's pair has a non-exit record with a positive balance.
HasPositive(row) ==
    \E r \in df : /\ r.loan_type = row[1] /\ r.current_stage = row[2]
                  /\ r.next_stage # "exit" /\ r.out_balance > 0

\* The sum of a row as floating-point addition computes it, left to right.
FloatSum(r) == FAdd(FAdd(r[1], r[2]), r[3])

\* The least k with every entry of the row a multiple of 2^-k, and the exact
\* sum of the row in units of 2^-k.
Depth(r) ==
    LET d(x) == IF x[2] < 0 THEN 0 - x[2] ELSE 0
        Max(a, b) == IF a < b THEN b ELSE a
    IN  Max(d(r[1]), Max(d(r[2]), d(r[3])))
ExactSum(r) ==
    LET k == Depth(r)
    IN  r[1][1] * 2 ^ (r[1][2] + k) + r[2][1] * 2 ^ (r[2][2] + k)
          + r[3][1] * 2 ^ (r[3][2] + k)

NoNegativeEntry(r) == \A j \in 1 .. 3 : r[j] # NaN /\ r[j][1] >= 0

C8_FullShape ==
    (done /\ DropExit(df) # {}) =>
      /\ matrices.columns = TableStages
      /\ \A r \in DropExit(df) : \A stage \in TableStages :
           <<r.loan_type, stage>> \in matrices.index

\* -------------------------------------------------- C2, C3 and C10 ------
\* The latest call was absorbing_state with a valid matrix_size, and it
\* returned.
Absorbed ==
    /\ call.function = "absorbing_state"
    /\ call.matrix_size \in {3, 4}
    /\ error = "none"

LatestResult == results[Len(results)]

\* C2, as stated: in the collection absorbing_state returns, every segment's
\* last row is the unit vector (0, ..., 0, 1) and every other row is the
\* input's row.
C2_LastRowUnitOthersKept ==
    Absorbed =>
      \A seg \in DOMAIN given : \A i \in 1 .. size :
        LatestResult[seg][i] = (IF i = size THEN UnitRow(size)
                                ELSE given[seg][i])

\* C3: a second absorbing_state call returns, entry for entry, what the
\* first returned.
C3_Idempotent ==
    \A k \in 1 .. Len(results) - 1 : results[k + 1] = results[k]

\* C3 witness: two calls have returned in a build that writes the assignment
\* through, the result has its unit last rows, and one of its matrices
\* carries an observed row that is neither zero nor the unit vector.
C3_Witness ==
    /\ Len(results) = 2
    /\ views
    /\ \A seg \in DOMAIN results[2] : results[2][seg][size] = UnitRow(size)
    /\ \E seg \in DOMAIN results[2] : \E i \in 1 .. size - 1 :
         /\ results[2][seg][i] # UnitRow(size)
         /\ \E j \in 1 .. size : results[2][seg][i][j] \notin {Zero, One}

\* C10, as stated: after absorbing_state has returned, the caller's
\* collection holds the entries it held before the call.
C10_InputUnchanged == Absorbed => matrices_df = given

\* ---------------------------------------------------------------- C4 ---
\* C4, as stated: a call of absorbing_state or extract_pds with a
\* matrix_size outside {3, 4} raises InvalidParameterError, leaves the
\* caller's collection as it was and returns nothing.
C4_InvalidParameterError ==
    [][ (call' # call /\ call'.matrix_size \notin {3, 4}) =>
          /\ error' = "InvalidParameterError"
          /\ matrices_df' = matrices_df
          /\ results' = results
          /\ pds' = <<>> ]_vars

\* C4, amended: such a call raises ValueError, leaves the caller's
\* collection as it was and returns nothing.
C4_ValueError ==
    [][ (call' # call /\ call'.matrix_size \notin {3, 4}) =>
          /\ error' = "ValueError"
          /\ matrices_df' = matrices_df
          /\ results' = results
          /\ pds' = <<>> ]_vars

\* C4 witness: after an absorbing_state call has returned, extract_pds was
\* called with matrix_size 5 and raised.
C4_Witness ==
    /\ call = [function |-> "extract_pds", matrix_size |-> 5]
    /\ error = "ValueError"
    /\ Len(results) >= 1
    /\ pds = <<>>

\* ------------------------------------------------------ C5, C6, C7 ------
\* The latest call was extract_pds with a valid matrix_size, and it
\* returned.
Extracted ==
    /\ call.function = "extract_pds"
    /\ call.matrix_size \in {3, 4}
    /\ error = "none"

\* The cumulative and the marginal table of a stage in the returned tuple.
CumulativeTable(stage) == pds[stage + 1]
MarginalTable(stage) == pds[call.matrix_size + stage]

\* C5, as stated: every cumulative sequence extract_pds returns from
\* absorbing matrices of size matrix_size is non-decreasing and lies in
\* [0, 1].
C5_CumulativeMonotone ==
    (Extracted /\ call.matrix_size = size) =>
      \A stage \in Stages(size - 1) : \A seg \in DOMAIN matrices_df :
        LET c == CumulativeTable(stage)[seg]
        IN  \A t \in 1 .. Horizon :
              /\ FLeq(Zero, c[t]) /\ FLeq(c[t], One)
              /\ t > 1 => FLeq(c[t - 1], c[t])

\* C6: for every segment and non-default stage, the marginal and the
\* cumulative sequence have one entry per horizon, the first marginal value
\* is the first cumulative value, and every later marginal value is the
\* cumulative value minus the one before it.
C6_MarginalIsDifference ==
    Extracted =>
      \A stage \in Stages(call.matrix_size - 1) : \A seg \in DOMAIN matrices_df :
        LET c == CumulativeTable(stage)[seg]
            m == MarginalTable(stage)[seg]
        IN  /\ Len(c) = Horizon /\ Len(m) = Horizon
            /\ m[1] = c[1]
            /\ \A t \in 2 .. Horizon : m[t] = FSub(c[t], c[t - 1])

\* C6 witness: extract_pds has returned sequences with a marginal value
\* after the first that is not zero.
C6_Witness ==
    /\ Extracted
    /\ \E stage \in Stages(call.matrix_size - 1) : \E seg \in DOMAIN matrices_df :
         \E t \in 2 .. Horizon : MarginalTable(stage)[seg][t] # Zero

\* C7: extract_pds returns 2 * (matrix_size - 1) tables with one column per
\* segment: table s of the first half holds stage s's cumulative sequence
\* (entry [s, matrix_size - 1] of the matrix, then of its square), and table
\* s of the second half holds stage s's marginal sequence.
C7_TupleOfTables ==
    Extracted =>
      LET ms == call.matrix_size
      IN  /\ Len(pds) = 2 * (ms - 1)
          /\ \A k \in 1 .. 2 * (ms - 1) : DOMAIN pds[k] = DOMAIN matrices_df
          /\ \A stage \in Stages(ms - 1) : \A seg \in DOMAIN matrices_df :
               LET a == matrices_df[seg]
                   first == At(a, stage, ms - 1)
                   second == Dot(a, a, stage, ms - 1, size - 1)
               IN  /\ CumulativeTable(stage)[seg][1] = first
                   /\ CumulativeTable(stage)[seg][2] = second
                   /\ MarginalTable(stage)[seg][1] = first
                   /\ MarginalTable(stage)[seg][2] = FSub(second, first)

\* C7 witness: extract_pds has returned 3 cumulative and 3 marginal tables
\* for two segments of 4-stage matrices, and in one segment the stages differ
\* in their first two cumulative values from each other and from their
\* marginal values.
C7_Witness ==
    /\ Extracted /\ call.matrix_size = 4 /\ Len(pds) = 6
    /\ DOMAIN matrices_df = Segments
    /\ \E seg \in Segments :
         /\ \A s1, s2 \in Stages(3) :
              s1 # s2 => \E t \in 1 .. 2 :
                CumulativeTable(s1)[seg][t] # CumulativeTable(s2)[seg][t]
         /\ \E stage \in Stages(3) :
              CumulativeTable(stage)[seg][2] # MarginalTable(stage)[seg][2]

\* ---------------------------------------------------------------- C9 ---
\* C9, as stated: given a table without a 'recoveries' column and with a
\* 'cures' column that contains 'cured', cure_rate returns a table with the
\* one column cure_rates, of one marginal rate per horizon.
C9_CuresOnlyCompletes ==
    (/\ rates # NoRates
     /\ "recoveries" \notin cures.columns
     /\ HasGroup(cures, "cures", "cured")) =>
      /\ rates.error = "none"
      /\ DOMAIN rates.value = {"cure_rates"}
      /\ Len(rates.value.cure_rates) = Horizon
=============================================================================
